---- MODULE Spec2Model ----
(***************************************************************************)
(* Model of the NHS SitRep spreadsheet reshaper                            *)
(* (src/nhs_data_extractor-checkpoint.py): extract_nhs_sheet, which turns  *)
(* one wide sheet into long-format records, and extract_all_nhs_data,      *)
(* which runs it over the target sheets of the first workbook found.       *)
(* The last part models the fetch loops of download_weather_data and       *)
(* download_google_trends (src/data_extraction.py).                        *)
(*                                                                         *)
(* Indices are the source's: grid rows and columns, list positions and     *)
(* DataFrame column positions are 0-based.  Python lists and DataFrames    *)
(* are TLA+ sequences, read through At(seq, i) == seq[i + 1].              *)
(***************************************************************************)
EXTENDS Integers, Sequences, FiniteSets, TLC

\* ------------------------------------------------------------------ bounds
\* Largest number of date/metric columns (spreadsheet columns 5, 6, ...).
MaxCols == 3
\* Largest number of data rows (spreadsheet rows 15, 16, ...).
MaxRows == 2
\* Largest number of data cells (data rows x date/metric columns) of a grid.
MaxCells == 4

\* ------------------------------------------------------- program constants
dates_row == 13
headers_row == 14
data_start_row == 15
\* range(5, len(df_raw.columns)) and iloc[headers_row, 5:]
FirstDataCol == 5
\* 'col_idx': i + 4
ColIdxOffset == 4
\* data_cols = df_data.columns[4:]
DataColsFrom == 4

\* -------------------------------------------------------------- cell values
\* A cell of the sheet as pandas reads it: blank (NaN), a string, a number
\* or a Timestamp.  None is Python's None (the dates list), and Series is
\* what row[label] returns when the label names several columns.
NaN == [k |-> "nan", s |-> "", n |-> 0]
None == [k |-> "none", s |-> "", n |-> 0]
Text(s) == [k |-> "text", s |-> s, n |-> 0]
Num(n) == [k |-> "num", s |-> "", n |-> n]
Timestamp(d) == [k |-> "date", s |-> "", n |-> d]
SeriesOf(cnt) == [k |-> "series", s |-> "", n |-> cnt]

At(seq, i) == seq[i + 1]

\* pd.notna(x)
notna(c) == c.k \notin {"nan", "none"}

\* isinstance(x, (pd.Timestamp, datetime))
IsTimestamp(c) == c.k = "date"

\* Python truth value, as `if date and metric` takes it: None, "", 0 are
\* false; float('nan') is a non-zero float and therefore true.
Truthy(c) ==
    CASE c.k = "none" -> FALSE
      [] c.k = "nan" -> TRUE
      [] c.k = "text" -> c.s # ""
      [] c.k = "num" -> c.n # 0
      [] OTHER -> TRUE

\* str(metric).strip()
StrStrip(c) ==
    CASE c.k = "text" -> c.s
      [] c.k = "nan" -> "nan"
      [] c.k = "none" -> "None"
      [] c.k = "num" -> ToString(c.n)
      [] OTHER -> "timestamp"

\* pd.to_numeric(x, errors='coerce') on one scalar: a number stays, every
\* string of the model is non-numeric text and becomes NaN, as do blanks
\* and Timestamps.
ToNumericScalar(c) == IF c.k = "num" THEN c ELSE NaN

\* ----------------------------------------------------------------- the grid
\* df_raw = xl.parse(sheet_name, header=None): ncols date/metric columns
\* after the five metadata columns, nrows data rows after the two header
\* rows.
NumColumns(g) == FirstDataCol + g.ncols
DataColsOf(nc) == FirstDataCol .. (FirstDataCol + nc - 1)
DataRowsOf(nr) == data_start_row .. (data_start_row + nr - 1)
GridDataCols(g) == DataColsOf(g.ncols)
GridDataRows(g) == DataRowsOf(g.nrows)

\* The number held by a numeric data cell names the cell: no two cells of a
\* grid hold the same number, so a value tells which cell it was read from.
CellNumber(r, c) == 100 * (r - data_start_row + 1) + c

DateCells == {NaN, Timestamp(1), Timestamp(2)}
MetricCells == {NaN, Text("Beds Available"), Text("Beds Occupied"), Num(0)}
DataKinds == {"nan", "text", "num"}

\* The cells a data row can hold: the facility's name and code, and per data
\* column a blank, a non-numeric string or that cell's number.
TrustNames == [r \in DataRowsOf(MaxRows) |-> Text("Trust " \o ToString(r))]
TrustCodes == [r \in DataRowsOf(MaxRows) |-> Text("R" \o ToString(r))]
Numbers ==
    [r \in DataRowsOf(MaxRows) |-> [c \in DataColsOf(MaxCols) |-> Num(CellNumber(r, c))]]
NotANumber == Text("n/a")
Drop1 == Text("x")
Region == Text("North")
Drop2 == Text("E1")

DataCell(kind, r, c) ==
    CASE kind = "nan" -> NaN
      [] kind = "text" -> NotANumber
      [] OTHER -> Numbers[r][c]

\* A grid is kept by what varies in it: its row 13 (d), its row 14 (m), which
\* data rows name a facility (t) and the kind of every data cell (v).
MkGrid(nc, nr, d, m, t, v) ==
    [ncols |-> nc, nrows |-> nr, d |-> d, m |-> m, t |-> t, v |-> v]

\* df_raw.iloc[r, c]
Iloc(g, r, c) ==
    IF r = dates_row
      THEN (IF c >= FirstDataCol THEN g.d[c] ELSE NaN)
    ELSE IF r = headers_row
      THEN (IF c >= FirstDataCol THEN g.m[c] ELSE NaN)
    ELSE CASE c = 0 -> Drop1
           [] c = 1 -> Region
           [] c = 2 -> Drop2
           [] c = 3 -> TrustCodes[r]
           [] c = 4 -> (IF g.t[r] THEN TrustNames[r] ELSE NaN)
           [] OTHER -> DataCell(g.v[<<r, c>>], r, c)

\* ------------------------------------------------- extract_nhs_sheet, parts

\* Lines 44-53: the dates list, forward-filled.
RECURSIVE DatesLoop(_, _, _)
DatesLoop(g, col_idx, dates) ==
    IF col_idx >= NumColumns(g) THEN dates
    ELSE LET date_val == Iloc(g, dates_row, col_idx) IN
         DatesLoop(g, col_idx + 1,
                   IF notna(date_val) /\ IsTimestamp(date_val)
                     THEN Append(dates, date_val)
                   ELSE IF dates # <<>>
                     THEN Append(dates, dates[Len(dates)])
                   ELSE Append(dates, None))

\* The same loop started one column too far to the right.
ExtractDatesShifted(g) == DatesLoop(g, FirstDataCol + 1, <<>>)

ExtractDates(g) == DatesLoop(g, FirstDataCol, <<>>)

\* Line 56: metrics = df_raw.iloc[headers_row, 5:].tolist()
ExtractMetrics(g) == [i \in 1 .. g.ncols |-> Iloc(g, headers_row, FirstDataCol + i - 1)]

\* Lines 62-68: the data rows under the new column names, the two _drop
\* columns removed.  A frame is its column labels and its rows; a row keeps
\* its index label (the grid row) and its values by position.
FrameColumns(mets) ==
    <<Text("region"), Text("trust_code"), Text("trust_name")>> \o mets

FrameRow(g, r) ==
    [idx |-> r,
     vals |-> <<Iloc(g, r, 1), Iloc(g, r, 3), Iloc(g, r, 4)>> \o
              [i \in 1 .. g.ncols |-> Iloc(g, r, FirstDataCol + i - 1)]]

DataFrameOf(g, mets) ==
    [columns |-> FrameColumns(mets),
     rows |-> [j \in 1 .. g.nrows |-> FrameRow(g, data_start_row + j - 1)]]

\* Index.get_indexer_for: the 0-based positions a label names.
PositionsOf(columns, label) == {p \in 0 .. (Len(columns) - 1) : At(columns, p) = label}

\* Lines 71-72: dropna(subset=data_cols, how='all') with
\* data_cols = df_data.columns[4:], a list of labels.
DataColLabels(columns) == {At(columns, p) : p \in DataColsFrom .. (Len(columns) - 1)}

SubsetPositions(columns) ==
    UNION {PositionsOf(columns, l) : l \in DataColLabels(columns)}

DropnaAll(df) ==
    [df EXCEPT !.rows = SelectSeq(df.rows,
        LAMBDA row : \E p \in SubsetPositions(df.columns) : notna(At(row.vals, p)))]

\* Line 75: df_data[df_data['trust_name'].notna()]
TrustNamePos == 2
KeepNamed(df) ==
    [df EXCEPT !.rows = SelectSeq(df.rows, LAMBDA row : notna(At(row.vals, TrustNamePos)))]

\* The row filter without the trust_name test.
SelectRowsUnnamed(g, mets) == DropnaAll(DataFrameOf(g, mets))

SelectRows(g, mets) == KeepNamed(DropnaAll(DataFrameOf(g, mets)))

\* Lines 79-86: date_metric_map over enumerate(zip(dates, metrics)).
Min(a, b) == IF a < b THEN a ELSE b

RECURSIVE MapLoop(_, _, _, _)
MapLoop(dts, mets, i, acc) ==
    IF i >= Min(Len(dts), Len(mets)) THEN acc
    ELSE LET date == At(dts, i)
             metric == At(mets, i) IN
         MapLoop(dts, mets, i + 1,
                 IF Truthy(date) /\ Truthy(metric)
                   THEN Append(acc, [col_idx |-> i + ColIdxOffset,
                                     date |-> date,
                                     metric |-> StrStrip(metric),
                                     i |-> i])
                   ELSE acc)

BuildDateMetricMap(dts, mets) == MapLoop(dts, mets, 0, <<>>)

\* Line 100: row[col_name], a lookup by label: the one cell the label names,
\* or a Series of them when several columns carry the label.
RowLookup(columns, row, col_name) ==
    LET P == PositionsOf(columns, col_name) IN
    IF Cardinality(P) = 1
      THEN At(row.vals, CHOOSE p \in P : TRUE)
      ELSE SeriesOf(Cardinality(P))

\* Lines 93-101: the record of one row and one date_metric_map entry.
\* src_row and src_col are not fields of the program's record: they note the
\* grid row and the spreadsheet column (5 + i) the entry was built for.
MkRecord(df, row, dm, sheet_name) ==
    LET col_name == At(df.columns, dm.col_idx) IN
    [date |-> dm.date,
     region |-> At(row.vals, 0),
     trust_code |-> At(row.vals, 1),
     trust_name |-> At(row.vals, TrustNamePos),
     metric |-> sheet_name \o "_" \o dm.metric,
     value |-> RowLookup(df.columns, row, col_name),
     src_row |-> row.idx,
     src_col |-> FirstDataCol + dm.i]

\* df_data.columns[dm['col_idx']] raises IndexError past the last column.
InRange(df, dm) == dm.col_idx < Len(df.columns)

\* The entries of the map before the first one whose column is out of range.
RECURSIVE GoodPrefix(_, _)
GoodPrefix(df, dmm) ==
    IF dmm = <<>> \/ ~InRange(df, Head(dmm)) THEN <<>>
    ELSE <<Head(dmm)>> \o GoodPrefix(df, Tail(dmm))

RowRecords(df, row, dmm, sheet_name) ==
    LET good == GoodPrefix(df, dmm) IN
    [j \in 1 .. Len(good) |-> MkRecord(df, row, good[j], sheet_name)]

RowRaises(df, dmm) == \E j \in 1 .. Len(dmm) : ~InRange(df, dmm[j])

\* Lines 106-109: to_numeric(errors='coerce') on the value column, then
\* dropna(subset=['value']).
HasSeries(recs) == \E j \in 1 .. Len(recs) : recs[j].value.k = "series"

CoerceAll(recs) ==
    [j \in 1 .. Len(recs) |->
        [recs[j] EXCEPT !.value = ToNumericScalar(recs[j].value)]]

DropnaValue(recs) == SelectSeq(recs, LAMBDA rec : notna(rec.value))

\* What lines 103-113 can do with the records of the loop.  pd.DataFrame([])
\* has no 'value' column, so df_long['value'] raises KeyError.  A Series among
\* the values is outside what to_numeric documents: depending on the pandas
\* build the call raises TypeError, leaves the column as it is, or coerces
\* the Series to NaN.
\* An outcome is how the call ends ("returned" or "raised"), the exception,
\* the records list as the loop left it, and the frame returned.
Outcome(status, err, recs, long) ==
    [status |-> status, err |-> err, records |-> recs, df_long |-> long]

FinishOutcomes(recs) ==
    IF recs = <<>> THEN {Outcome("raised", "KeyError", recs, <<>>)}
    ELSE IF HasSeries(recs)
      THEN {Outcome("raised", "TypeError", recs, <<>>),
            Outcome("returned", "", recs, DropnaValue(recs)),
            Outcome("returned", "", recs, DropnaValue(CoerceAll(recs)))}
    ELSE {Outcome("returned", "", recs, DropnaValue(CoerceAll(recs)))}

\* The same loop walking the rows from the last to the first.
RECURSIVE LoopRecordsReversed(_, _, _, _)
LoopRecordsReversed(df, rows, dmm, name) ==
    IF rows = <<>> THEN <<>>
    ELSE LoopRecordsReversed(df, Tail(rows), dmm, name)
           \o RowRecords(df, Head(rows), dmm, name)

\* Lines 89-101: the loop over df_data.iterrows().
RECURSIVE LoopRecords(_, _, _, _)
LoopRecords(df, rows, dmm, name) ==
    IF rows = <<>> THEN <<>>
    ELSE RowRecords(df, Head(rows), dmm, name) \o LoopRecords(df, Tail(rows), dmm, name)

\* extract_nhs_sheet from line 44 to its end, as the set of its outcomes on a
\* grid.  The first retained row already meets the entry whose column is out
\* of range, if there is one, and the call ends there with IndexError.
ExtractOutcomes(g, name) ==
    LET dts == ExtractDates(g)
        mets == ExtractMetrics(g)
        df == SelectRows(g, mets)
        dmm == BuildDateMetricMap(dts, mets)
    IN IF df.rows # <<>> /\ RowRaises(df, dmm)
         THEN {Outcome("raised", "IndexError",
                       RowRecords(df, Head(df.rows), dmm, name), <<>>)}
         ELSE FinishOutcomes(LoopRecords(df, df.rows, dmm, name))

\* ------------------------------------------------------------------- state
VARIABLES
    grid,             \* df_raw
    sheet_name,       \* the sheet being extracted
    pc,               \* "call" before extract_nhs_sheet ran, then "returned" or "raised"
    records,          \* line 89, as the loop left it
    df_long,          \* the returned frame, as its sequence of records
    err,              \* the exception raised, "" when none
    \* extract_all_nhs_data
    excel_files,      \* line 127
    book,             \* the sheets of main_file = excel_files[0]
    apc,              \* position in extract_all_nhs_data
    sheet_i,          \* how many of target_sheets the loop has done
    all_data,         \* line 143
    log,              \* the logger.error lines of line 150
    df_combined,      \* line 154
    aerr,             \* the exception extract_all_nhs_data raised
    attempts,         \* history: each call of extract_nhs_sheet and its outcome
    \* download_weather_data / download_google_trends (src/data_extraction.py)
    source,           \* which of the two functions runs: "weather" or "trends"
    fpc,              \* position in that function
    item_i,           \* how many of the configured cities / keywords the loop has done
    all_source_data,  \* all_weather_data (line 248) / all_trends_data (line 360)
    flog,             \* the logger.warning and logger.error lines of the function
    df_result,        \* the frame the function returns
    requests,         \* history: the cities / keywords requested, in order
    responses,        \* history: what each request came back with
    delayed           \* history: time.sleep has run since the last request was issued

sheetVars == <<grid, sheet_name, pc, records, df_long, err>>

allVars == <<excel_files, book, apc, sheet_i, all_data, log, df_combined, aerr,
             attempts>>

fetchVars == <<source, fpc, item_i, all_source_data, flog, df_result, requests,
               responses, delayed>>

vars == <<sheetVars, allVars, fetchVars>>

\* Neither download function is running.
FetchIdle ==
    /\ source = ""
    /\ fpc = "idle"
    /\ item_i = 0
    /\ all_source_data = <<>>
    /\ flog = <<>>
    /\ df_result = <<>>
    /\ requests = <<>>
    /\ responses = <<>>
    /\ delayed = FALSE

\* extract_nhs_sheet never compares two dates or two metric names with an
\* order, so header rows that differ only by which date is called Timestamp(1)
\* or which name is "Beds Available" behave alike: the first distinct date of
\* row 13 is Timestamp(1) and the first distinct name of row 14 is "Beds
\* Available".
FirstOfItsKind(h, first, second) ==
    \A c \in DOMAIN h : h[c] = second => \E c2 \in DOMAIN h : c2 < c /\ h[c2] = first

DateRows(nc) ==
    {d \in [DataColsOf(nc) -> DateCells] :
        FirstOfItsKind(d, Timestamp(1), Timestamp(2))}

MetricRows(nc) ==
    {m \in [DataColsOf(nc) -> MetricCells] :
        FirstOfItsKind(m, Text("Beds Available"), Text("Beds Occupied"))}

Init ==
    /\ \E nc \in 1 .. MaxCols, nr \in 0 .. MaxRows :
         /\ nc * nr <= MaxCells
         /\ \E d \in DateRows(nc),
               m \in MetricRows(nc),
               t \in [DataRowsOf(nr) -> BOOLEAN],
               v \in [DataRowsOf(nr) \X DataColsOf(nc) -> DataKinds] :
              grid = MkGrid(nc, nr, d, m, t, v)
    /\ sheet_name = "Total G&A beds"
    /\ pc = "call"
    /\ records = <<>>
    /\ df_long = <<>>
    /\ err = ""
    \* extract_all_nhs_data is not running.
    /\ excel_files = <<>>
    /\ book = <<>>
    /\ apc = "idle"
    /\ sheet_i = 0
    /\ all_data = <<>>
    /\ log = <<>>
    /\ df_combined = <<>>
    /\ aerr = ""
    /\ attempts = <<>>
    /\ FetchIdle

\* extract_nhs_sheet(file_path, sheet_name) on the sheet read at lines 33-34.
ExtractNhsSheet ==
    /\ pc = "call"
    /\ \E out \in ExtractOutcomes(grid, sheet_name) :
         /\ pc' = out.status
         /\ err' = out.err
         /\ records' = out.records
         /\ df_long' = out.df_long
    /\ UNCHANGED <<grid, sheet_name>>
    /\ UNCHANGED allVars
    /\ UNCHANGED fetchVars

Next == ExtractNhsSheet

Spec == Init /\ [][Next]_vars

\* ------------------------------------------------------ extract_all_nhs_data
\* Largest number of *.xlsx files the folder holds.
MaxFiles == 2

\* Lines 135-141.
target_sheets ==
    <<"Total G&A beds", "Adult G&A beds", "Adult critical care", "Flu", "RSV">>

TargetSheetSet == {target_sheets[j] : j \in 1 .. Len(target_sheets)}

\* The sheets a workbook of the model can hold under a target name: none, or
\* one of three grids of two date/metric columns and one data row.
TwoCols == DataColsOf(2)
OneRow == DataRowsOf(1)

\* The second column's metric cell is 0: extract_nhs_sheet returns a record.
GridReturning ==
    MkGrid(2, 1,
           [c \in TwoCols |-> IF c = FirstDataCol THEN Timestamp(1) ELSE NaN],
           [c \in TwoCols |-> IF c = FirstDataCol THEN Text("Beds Available") ELSE Num(0)],
           [r \in OneRow |-> TRUE],
           [rc \in OneRow \X TwoCols |-> "num"])

\* The sheet of the end-to-end example: two dated metric columns, one trust.
GridExample ==
    MkGrid(2, 1,
           [c \in TwoCols |-> Timestamp(1)],
           [c \in TwoCols |-> IF c = FirstDataCol THEN Text("Beds Available")
                                                  ELSE Text("Beds Occupied")],
           [r \in OneRow |-> TRUE],
           [rc \in OneRow \X TwoCols |-> "num"])

\* The same sheet with the facility name blank.
GridUnnamed ==
    MkGrid(2, 1,
           [c \in TwoCols |-> Timestamp(1)],
           [c \in TwoCols |-> IF c = FirstDataCol THEN Text("Beds Available")
                                                  ELSE Text("Beds Occupied")],
           [r \in OneRow |-> FALSE],
           [rc \in OneRow \X TwoCols |-> "num"])

AbsentSheet == [present |-> FALSE, grid |-> GridExample]
SheetContents ==
    {AbsentSheet} \cup {[present |-> TRUE, grid |-> g] :
                          g \in {GridReturning, GridExample, GridUnnamed}}

\* extract_nhs_sheet(main_file, sheet): xl.parse raises ValueError for a sheet
\* the workbook does not hold (line 34).
SheetOutcomes(bk, sheet) ==
    IF ~bk[sheet].present THEN {Outcome("raised", "ValueError", <<>>, <<>>)}
    ELSE ExtractOutcomes(bk[sheet].grid, sheet)

FileName(j) == "nhs" \o ToString(j) \o ".xlsx"

InitAll ==
    /\ \E n \in 0 .. MaxFiles : excel_files = [j \in 1 .. n |-> FileName(j)]
    /\ IF excel_files = <<>>
         THEN book = [sh \in TargetSheetSet |-> AbsentSheet]
         ELSE book \in [TargetSheetSet -> SheetContents]
    /\ apc = "glob"
    /\ sheet_i = 0
    /\ all_data = <<>>
    /\ log = <<>>
    /\ df_combined = <<>>
    /\ aerr = ""
    /\ attempts = <<>>
    \* extract_nhs_sheet is not running on its own.
    /\ grid = GridExample
    /\ sheet_name = ""
    /\ pc = "idle"
    /\ records = <<>>
    /\ df_long = <<>>
    /\ err = ""
    /\ FetchIdle

\* Lines 126-143: main_file = excel_files[0] raises IndexError on an empty list.
FindFiles ==
    /\ apc = "glob"
    /\ IF excel_files = <<>>
         THEN apc' = "raised" /\ aerr' = "IndexError"
         ELSE apc' = "sheets" /\ aerr' = aerr
    /\ sheet_i' = 0
    /\ all_data' = <<>>
    /\ UNCHANGED <<excel_files, book, log, df_combined, attempts>>
    /\ UNCHANGED sheetVars
    /\ UNCHANGED fetchVars

\* Lines 145-151 with the try/except left out: the first failing sheet ends
\* the run.
TrySheetNoExcept ==
    /\ apc = "sheets"
    /\ sheet_i < Len(target_sheets)
    /\ LET sheet == At(target_sheets, sheet_i) IN
       \E out \in SheetOutcomes(book, sheet) :
         /\ attempts' = Append(attempts, [sheet |-> sheet, out |-> out])
         /\ IF out.status = "returned"
              THEN /\ all_data' = Append(all_data, out.df_long)
                   /\ sheet_i' = sheet_i + 1
                   /\ UNCHANGED <<apc, aerr>>
              ELSE /\ apc' = "raised"
                   /\ aerr' = out.err
                   /\ UNCHANGED <<all_data, sheet_i>>
    /\ UNCHANGED <<excel_files, book, log, df_combined>>
    /\ UNCHANGED sheetVars
    /\ UNCHANGED fetchVars

\* Lines 145-151, one iteration of the loop over target_sheets.
TrySheet ==
    /\ apc = "sheets"
    /\ sheet_i < Len(target_sheets)
    /\ LET sheet == At(target_sheets, sheet_i) IN
       \E out \in SheetOutcomes(book, sheet) :
         /\ attempts' = Append(attempts, [sheet |-> sheet, out |-> out])
         /\ IF out.status = "returned"
              THEN /\ all_data' = Append(all_data, out.df_long)
                   /\ UNCHANGED log
              ELSE /\ log' = Append(log, [sheet |-> sheet, err |-> out.err])
                   /\ UNCHANGED all_data
    /\ sheet_i' = sheet_i + 1
    /\ UNCHANGED <<excel_files, book, apc, df_combined, aerr>>
    /\ UNCHANGED sheetVars
    /\ UNCHANGED fetchVars

\* pd.concat(frames, ignore_index=True)
RECURSIVE Concat(_)
Concat(frames) ==
    IF frames = <<>> THEN <<>> ELSE Head(frames) \o Concat(Tail(frames))

\* Lines 153-160: pd.concat of an empty list raises ValueError.
Combine ==
    /\ apc = "sheets"
    /\ sheet_i = Len(target_sheets)
    /\ IF all_data = <<>>
         THEN /\ apc' = "raised"
              /\ aerr' = "ValueError"
              /\ UNCHANGED df_combined
         ELSE /\ df_combined' = Concat(all_data)
              /\ apc' = "returned"
              /\ UNCHANGED aerr
    /\ UNCHANGED <<excel_files, book, sheet_i, all_data, log, attempts>>
    /\ UNCHANGED sheetVars
    /\ UNCHANGED fetchVars

NextAll ==
    \/ FindFiles
    \/ TrySheet
    \/ Combine

SpecAll == InitAll /\ [][NextAll]_vars

\* ------------------------- download_weather_data and download_google_trends
\* (src/data_extraction.py)

\* The most rows one fetch returns.
MaxDays == 1

\* Config.UK_CITIES (lines 55-64), by city_name, and Config.TRENDS_KEYWORDS
\* (lines 67-73).
UK_CITIES ==
    <<"London", "Manchester", "Birmingham", "Leeds", "Edinburgh", "Liverpool",
      "Bristol", "Norwich">>

TRENDS_KEYWORDS ==
    <<"flu symptoms", "fever", "A&E wait times", "emergency room", "cold and flu">>

\* The list the running function loops over (lines 250 and 363).
Configured == IF source = "weather" THEN UK_CITIES ELSE TRENDS_KEYWORDS

\* The frame one successful fetch yields: df_city (line 301) or df_trend
\* (lines 377-386), n rows tagged with the city / keyword.
FrameOf(item, n) == [d \in 1 .. n |-> [item |-> item, day |-> d]]

InitFetch ==
    /\ source \in {"weather", "trends"}
    /\ fpc = "setup"
    /\ item_i = 0
    /\ all_source_data = <<>>
    /\ flog = <<>>
    /\ df_result = <<>>
    /\ requests = <<>>
    /\ responses = <<>>
    /\ delayed = FALSE
    \* Neither NHS function is running.
    /\ grid = GridExample
    /\ sheet_name = ""
    /\ pc = "idle"
    /\ records = <<>>
    /\ df_long = <<>>
    /\ err = ""
    /\ excel_files = <<>>
    /\ book = <<>>
    /\ apc = "idle"
    /\ sheet_i = 0
    /\ all_data = <<>>
    /\ log = <<>>
    /\ df_combined = <<>>
    /\ aerr = ""
    /\ attempts = <<>>

\* Lines 240-248 (weather) and 353-360 (trends).  TrendReq(...) runs inside
\* the outer try of line 356: when it raises (pytrends missing, line 22-25, or
\* its constructor failing) lines 421-424 log and return an empty frame.
SetupClient ==
    /\ fpc = "setup"
    /\ \/ /\ fpc' = "request"
          /\ UNCHANGED <<flog, df_result>>
       \/ /\ source = "trends"
          /\ flog' = Append(flog, [level |-> "error", item |-> "TrendReq"])
          /\ df_result' = <<>>
          /\ fpc' = "returned"
    /\ all_source_data' = <<>>
    /\ UNCHANGED <<source, item_i, requests, responses, delayed>>
    /\ UNCHANGED <<sheetVars, allVars>>

\* Lines 250-275 (weather_api) and 363-377 (build_payload, interest_over_time):
\* the request for the next city / keyword goes out.
FetchRequest ==
    /\ fpc = "request"
    /\ item_i < Len(Configured)
    /\ requests' = Append(requests, At(Configured, item_i))
    /\ delayed' = FALSE
    /\ fpc' = "respond"
    /\ UNCHANGED <<source, item_i, all_source_data, flog, df_result, responses>>
    /\ UNCHANGED <<sheetVars, allVars>>

\* Lines 276-304 and 379-391: the fetch came back with n rows.  Weather appends
\* df_city whatever its length; trends appends df_trend only when it is not
\* empty and warns otherwise.
FetchSucceed ==
    /\ fpc = "respond"
    /\ \E n \in 0 .. MaxDays :
         LET item == At(Configured, item_i)
             frame == FrameOf(item, n)
         IN  /\ responses' = Append(responses, [item |-> item, ok |-> TRUE, frame |-> frame])
             /\ IF source = "trends" /\ frame = <<>>
                  THEN /\ flog' = Append(flog, [level |-> "warning", item |-> item])
                       /\ UNCHANGED all_source_data
                  ELSE /\ all_source_data' = Append(all_source_data, frame)
                       /\ UNCHANGED flog
    /\ fpc' = "sleep"
    /\ UNCHANGED <<source, item_i, df_result, requests, delayed>>
    /\ UNCHANGED <<sheetVars, allVars>>

\* Lines 307 and 394: time.sleep, the last statement of the try block, then the
\* next iteration.
FetchSleep ==
    /\ fpc = "sleep"
    /\ delayed' = TRUE
    /\ item_i' = item_i + 1
    /\ fpc' = "request"
    /\ UNCHANGED <<source, all_source_data, flog, df_result, requests, responses>>
    /\ UNCHANGED <<sheetVars, allVars>>

\* The except branch ending the loop instead of continuing it.
FetchFailBreak ==
    /\ fpc = "respond"
    /\ LET item == At(Configured, item_i) IN
         /\ responses' = Append(responses, [item |-> item, ok |-> FALSE, frame |-> <<>>])
         /\ flog' = Append(flog, [level |-> "error", item |-> item])
    /\ item_i' = Len(Configured)
    /\ fpc' = "request"
    /\ UNCHANGED <<source, all_source_data, df_result, requests, delayed>>
    /\ UNCHANGED <<sheetVars, allVars>>

\* Lines 309-311 and 396-398: the fetch raised; except logs the error and
\* continues with the next city / keyword, skipping the rest of the try block.
FetchFail ==
    /\ fpc = "respond"
    /\ LET item == At(Configured, item_i) IN
         /\ responses' = Append(responses, [item |-> item, ok |-> FALSE, frame |-> <<>>])
         /\ flog' = Append(flog, [level |-> "error", item |-> item])
    /\ item_i' = item_i + 1
    /\ fpc' = "request"
    /\ UNCHANGED <<source, all_source_data, df_result, requests, delayed>>
    /\ UNCHANGED <<sheetVars, allVars>>

\* Lines 313-332 and 400-419: pd.concat of what was collected, or an empty
\* frame and an error line when nothing was.
CombineFetched ==
    /\ fpc = "request"
    /\ item_i = Len(Configured)
    /\ IF all_source_data # <<>>
         THEN /\ df_result' = Concat(all_source_data)
              /\ UNCHANGED flog
         ELSE /\ df_result' = <<>>
              /\ flog' = Append(flog, [level |-> "error", item |-> "no data"])
    /\ fpc' = "returned"
    /\ UNCHANGED <<source, item_i, all_source_data, requests, responses, delayed>>
    /\ UNCHANGED <<sheetVars, allVars>>

NextFetch ==
    \/ SetupClient
    \/ FetchRequest
    \/ FetchSucceed
    \/ FetchSleep
    \/ FetchFail
    \/ CombineFetched

SpecFetch == InitFetch /\ [][NextFetch]_vars

\* ------------------------------------------------------------------ claims
\* What the claims speak of, read off the grid alone.
Done == pc \in {"returned", "raised"}

Cell(r, c) == Iloc(grid, r, c)

\* The column holds an explicit date in row 13.
HasDate(c) == IsTimestamp(Cell(dates_row, c))

\* The date of the nearest dated column at or to the left of c, None if none.
ResolvedDate(c) ==
    LET S == {j \in FirstDataCol .. c : HasDate(j)} IN
    IF S = {} THEN None
    ELSE Cell(dates_row, CHOOSE j \in S : \A j2 \in S : j2 <= j)

\* The row-14 cell names a metric: it is neither blank nor a false value.
HasMetric(c) == notna(Cell(headers_row, c)) /\ Truthy(Cell(headers_row, c))

IsDateMetricColumn(c) == ResolvedDate(c) # None /\ HasMetric(c)

HasFacility(r) == notna(Cell(r, 4))

IsNumeric(r, c) == Cell(r, c).k = "num"

Emitted == {df_long[j] : j \in 1 .. Len(df_long)}

SrcPairs(recs) == {<<recs[j].src_row, recs[j].src_col>> : j \in 1 .. Len(recs)}

\* The sheet of the end-to-end example: two dated, differently named metric
\* columns and one named row holding two numbers.
IsExampleSheet ==
    /\ grid.ncols = 2 /\ grid.nrows = 1
    /\ \A c \in GridDataCols(grid) : HasDate(c) /\ Cell(headers_row, c).k = "text"
    /\ Cell(headers_row, FirstDataCol) # Cell(headers_row, FirstDataCol + 1)
    /\ HasFacility(data_start_row)
    /\ \A c \in GridDataCols(grid) : IsNumeric(data_start_row, c)

\* C1: every record's value is the numeric coercion of the cell in the record's
\* own row and column (no Series among the looked-up values), and the example
\* sheet yields exactly two records, one per column, with the two cells' values.
C1_ValueFromOwnColumn ==
    /\ (pc = "returned" /\ ~HasSeries(records)) =>
          \A rec \in Emitted :
             rec.value = ToNumericScalar(Cell(rec.src_row, rec.src_col))
    /\ (Done /\ IsExampleSheet) =>
          /\ pc = "returned"
          /\ Len(df_long) = 2
          /\ \A j \in 1 .. 2 :
               df_long[j].value = Cell(data_start_row, FirstDataCol + j - 1)

\* C2: when extract_nhs_sheet ends, the records it emitted are exactly one per
\* pair (row with a facility name, date/metric column) whose cell is numeric.
C2_OneRecordPerNumericPair ==
    Done =>
      /\ SrcPairs(df_long) =
           {rc \in GridDataRows(grid) \X GridDataCols(grid) :
               /\ HasFacility(rc[1])
               /\ IsDateMetricColumn(rc[2])
               /\ IsNumeric(rc[1], rc[2])}
      /\ Cardinality(SrcPairs(df_long)) = Len(df_long)

\* C3: a sheet with data rows whose row 13 holds no date makes extract_nhs_sheet
\* return zero records without raising.
C3_NoDatesEmptyResult ==
    (Done /\ grid.nrows >= 1 /\ \A c \in GridDataCols(grid) : ~HasDate(c)) =>
       pc = "returned" /\ df_long = <<>>

\* C4: a sheet with dated, named metric columns whose data rows all lack the
\* facility name makes extract_nhs_sheet return zero records without raising.
C4_AllUnnamedEmptyResult ==
    (/\ Done
     /\ grid.nrows >= 1
     /\ \A r \in GridDataRows(grid) : ~HasFacility(r)
     /\ \E c \in GridDataCols(grid) : IsDateMetricColumn(c)) =>
       pc = "returned" /\ df_long = <<>>

\* C5: every record built by the loop and every record returned carries the
\* date of the nearest dated column at or to the left of the record's column,
\* and that column exists.
C5_ForwardFilledDate ==
    \A rec \in Emitted \cup {records[j] : j \in 1 .. Len(records)} :
       /\ ResolvedDate(rec.src_col) # None
       /\ rec.date = ResolvedDate(rec.src_col)

\* A returned record whose own column has no date in row 13: its date was
\* forward-filled.
C5_Witness ==
    /\ pc = "returned"
    /\ \E rec \in Emitted : ~HasDate(rec.src_col) /\ IsTimestamp(rec.date)

\* C6: no returned record belongs to a column whose row-14 cell is blank, and
\* none has an absent date.
C6_SkipsUnnamedColumns ==
    pc = "returned" =>
      \A rec \in Emitted :
         /\ notna(Cell(headers_row, rec.src_col))
         /\ rec.date # None

\* C9: every returned record of a named metric column stands for a numeric
\* cell and has a numeric value (no Series among the looked-up values).
C9_OnlyNumericCells ==
    (pc = "returned" /\ ~HasSeries(records)) =>
      \A rec \in Emitted :
         HasMetric(rec.src_col) =>
            /\ IsNumeric(rec.src_row, rec.src_col)
            /\ rec.value.k = "num"

\* C10: no record, built or returned, comes from a row whose facility name is
\* missing, and every record carries its row's facility name.
C10_UnnamedRowsDropped ==
    \A rec \in Emitted \cup {records[j] : j \in 1 .. Len(records)} :
       /\ HasFacility(rec.src_row)
       /\ notna(rec.trust_name)
       /\ rec.trust_name = Cell(rec.src_row, 4)

\* A returned, non-empty result of a sheet that also holds a row without a
\* facility name but with a numeric data cell.
C10_Witness ==
    /\ pc = "returned"
    /\ df_long # <<>>
    /\ \E r \in GridDataRows(grid) :
         ~HasFacility(r) /\ \E c \in GridDataCols(grid) : IsNumeric(r, c)

\* -- extract_all_nhs_data
AllDone == apc \in {"returned", "raised"}

Returned(a) == a.out.status = "returned"

\* The frames of the calls that returned, in call order.
RECURSIVE ReturnedFrames(_)
ReturnedFrames(as) ==
    IF as = <<>> THEN <<>>
    ELSE (IF Returned(Head(as)) THEN <<Head(as).out.df_long>> ELSE <<>>)
         \o ReturnedFrames(Tail(as))

\* The sheets of the calls that raised, in call order.
RECURSIVE FailedSheets(_)
FailedSheets(as) ==
    IF as = <<>> THEN <<>>
    ELSE (IF Returned(Head(as)) THEN <<>> ELSE <<Head(as).sheet>>)
         \o FailedSheets(Tail(as))

\* C7: once a workbook is found, the target sheets are attempted one by one in
\* order, each exactly once, whatever failed before; every failure is logged;
\* the run does not end before all are attempted; and the combined result is
\* the records of the sheets that were extracted, in order.
C7_SheetFailuresIsolated ==
    (apc \in {"sheets", "returned", "raised"} /\ excel_files # <<>>) =>
      /\ Len(attempts) = sheet_i
      /\ \A j \in 1 .. Len(attempts) :
           /\ attempts[j].sheet = target_sheets[j]
           /\ attempts[j].out \in SheetOutcomes(book, target_sheets[j])
      /\ [j \in 1 .. Len(log) |-> log[j].sheet] = FailedSheets(attempts)
      /\ all_data = ReturnedFrames(attempts)
      /\ AllDone => Len(attempts) = Len(target_sheets)
      /\ apc = "returned" => df_combined = Concat(ReturnedFrames(attempts))

\* A run that returned records although a sheet failed before a sheet that
\* was extracted.
C7_Witness ==
    /\ apc = "returned"
    /\ df_combined # <<>>
    /\ \E j, k \in 1 .. Len(attempts) :
         j < k /\ ~Returned(attempts[j]) /\ Returned(attempts[k])
                /\ attempts[k].out.df_long # <<>>

\* C8: a run of extract_all_nhs_data that obtains no data (no workbook, or
\* every target sheet fails) ends by returning an empty result, not by raising.
C8_NoDataNoRaise ==
    (/\ AllDone
     /\ \/ excel_files = <<>>
        \/ \A j \in 1 .. Len(attempts) : ~Returned(attempts[j])) =>
       apc = "returned" /\ df_combined = <<>>


\* ----------------------------------------------- order and duplicated names
\* rec1 comes from an earlier grid row than rec2, or from the same row and a
\* lower spreadsheet column.
Before(rec1, rec2) ==
    \/ rec1.src_row < rec2.src_row
    \/ rec1.src_row = rec2.src_row /\ rec1.src_col < rec2.src_col

InOrder(recs) == \A j, k \in 1 .. Len(recs) : j < k => Before(recs[j], recs[k])

RepeatedMetric ==
    \E c1, c2 \in GridDataCols(grid) :
        /\ c1 < c2
        /\ HasMetric(c1)
        /\ Cell(headers_row, c1) = Cell(headers_row, c2)
        /\ ResolvedDate(c1) # None
        /\ ResolvedDate(c2) # None
        /\ ResolvedDate(c1) # ResolvedDate(c2)

\* C14: on a sheet that repeats a metric name under more than one date, the
\* lookup of line 100 gives every record the value of exactly one cell of
\* its row, never the cells of several same-named columns.
C14_LookupResolvesToOneCell ==
    (Done /\ err # "IndexError" /\ RepeatedMetric) =>
        \A j \in 1 .. Len(records) : records[j].value.k # "series"

\* ------------------------------- claims on the weather and trends downloads
FetchReturned == fpc = "returned"

\* Lines 421-424 ran: TrendReq(...) raised before the loop.
SetupFailed == \E j \in 1 .. Len(flog) : flog[j].item = "TrendReq"

\* The rows of the fetches that came back, in request order.
RECURSIVE SucceededData(_)
SucceededData(resps) ==
    IF resps = <<>> THEN <<>>
    ELSE (IF Head(resps).ok THEN Head(resps).frame ELSE <<>>)
           \o SucceededData(Tail(resps))

\* The cities / keywords whose fetch raised, in request order.
FailedItems(resps) ==
    LET failed == SelectSeq(resps, LAMBDA rsp : ~rsp.ok)
    IN  [j \in 1 .. Len(failed) |-> failed[j].item]

\* The cities / keywords of the logger.error lines of the loop, in order.
LoggedFailures ==
    LET lines == SelectSeq(flog, LAMBDA l : l.level = "error"
                                            /\ l.item \notin {"TrendReq", "no data"})
    IN  [j \in 1 .. Len(lines) |-> lines[j].item]

C12_DelayBetweenRequests ==
    (fpc = "request" /\ item_i < Len(Configured) /\ requests # <<>>) => delayed

====
